---- MODULE Spec2Model ----
(***************************************************************************)
(* Model of the relay performance analyser (weex/analyze-your-relays).     *)
(*                                                                         *)
(*   useRelayPerformanceTest  (src/unnamed/part_001): the hook that owns   *)
(*     the run state, resolves the follower list, probes each relay in     *)
(*     turn and computes the pairwise overlap.                             *)
(*   useNip65RelayList  (src/unnamed/part_002): the parser of the relay    *)
(*     list record.                                                        *)
(*   RelayPerformance  (src/src/pages/RelayPerformance.tsx): the page      *)
(*     that edits the list of relays handed to the hook.                   *)
(*                                                                         *)
(* JavaScript runs one task to completion between two awaits, so every     *)
(* action below is one such synchronous stretch of the source.  React      *)
(* state (isRunning, results, ...) holds the latest value passed to its    *)
(* setter; a callback sees the value its closure captured at the last      *)
(* render, which is a step of its own (Render).                            *)
(*                                                                         *)
(* Numbers that the source computes by floating point division (progress,  *)
(* bandwidth, overlapPercentage) are kept exact, as reduced fractions      *)
(* <<numerator, denominator>>.                                             *)
(***************************************************************************)
EXTENDS Integers, Sequences, FiniteSets, TLC

VARIABLES
    isRunning,        \* useState(false)          part_001:41
    results,          \* useState(null)           part_001:42
    overlapResults,   \* useState(null)           part_001:43
    progress,         \* useState(0)              part_001:44
    currentPhase,     \* useState('')             part_001:45
    error,            \* useState(null)           part_001:46
    closureIsRunning, \* isRunning as captured by the startTest callback of the last render
    pc,               \* per invocation of startTest: where it stands
    relays,           \* the relay list the caller holds and passes to every startTest
    followers,        \* per invocation: const followers (line 221)
    i,                \* per invocation: the loop index (0-based, line 229)
    testResults,      \* per invocation: const testResults (line 227)
    startTime,        \* per invocation: startTime of the probe in flight (line 75)
    progressLog,      \* per invocation: the values it passed to setProgress, in order
    queryLog,         \* per invocation: the queries it issued (lines 144 and 91), in order
    now,              \* the wall clock read by Date.now()
    fnArg,            \* argument of the pure function under check (function specifications)
    fnRet,            \* its result
    page              \* the state of the RelayPerformance page (RelayPerformance.tsx:23-26)

vars == <<isRunning, results, overlapResults, progress, currentPhase, error,
          closureIsRunning, pc, relays, followers, i, testResults, startTime,
          progressLog, queryLog, now, fnArg, fnRet, page>>

hookState == <<isRunning, results, overlapResults, progress, currentPhase, error>>
runLocals == <<pc, followers, i, testResults, startTime, progressLog, queryLog>>

----------------------------------------------------------------------------
(* Bounds of the model *)

MaxRuns == 2        \* invocations of startTest in one behaviour
MaxRelays == 2      \* length of a relays argument
MaxTags == 2        \* tags of a follow list record
MaxEvents == 1      \* events one relay query delivers to a run
MaxClock == 1       \* largest reading of the clock

Runs == 1..MaxRuns

(* Program constants *)
FollowLimit == 50   \* .slice(0, 50)

----------------------------------------------------------------------------
(* Values *)

Null == <<>>                      \* null / an absent optional field
Some(v) == <<v>>
IsNull(o) == o = <<>>

Min(a, b) == IF a <= b THEN a ELSE b
Abs(n) == IF n < 0 THEN -n ELSE n
Range(s) == {s[k] : k \in 1..Len(s)}
SeqsUpTo(S, n) == UNION {[1..k -> S] : k \in 0..n}

RECURSIVE GCD(_, _)
GCD(a, b) == IF b = 0 THEN a ELSE GCD(b, a % b)

\* the exact quotient n/d (d > 0) as a reduced fraction
Frac(n, d) == LET g == GCD(Abs(n), d) IN <<n \div g, d \div g>>
Whole(n) == <<n, 1>>
FracLeq(x, y) == x[1] * y[2] <= y[1] * x[2]
FracLess(x, y) == x[1] * y[2] < y[1] * x[2]

\* a message string; the template of line 254 carries its two numbers
Msg(text) == [text |-> text, failed |-> 0, total |-> 0]

\* a thrown value: an Error with a message, or anything else
ThrownError(m) == [isError |-> TRUE, message |-> m]
ThrownOther == [isError |-> FALSE, message |-> ""]

\* err instanceof Error ? err.message : fallback
ErrMessage(err, fallback) == IF err.isError THEN Msg(err.message) ELSE Msg(fallback)

----------------------------------------------------------------------------
(* The environment: what the queries answer *)

\* relay URLs; .replace('wss://', '') removes the first occurrence of the scheme
RelayUrls == {[scheme |-> "wss://", rest |-> "r1"], [scheme |-> "ws://", rest |-> "r2"]}
StripWss(relay) == IF relay.scheme = "wss://" THEN [scheme |-> "", rest |-> relay.rest] ELSE relay

\* kind 1 events: an id and the byte length of the event's JSON text
Events == {[id |-> "a", size |-> 2], [id |-> "b", size |-> 3]}
RunEvents == {[id |-> "a", size |-> 2]}

\* what a query can end with: the events it delivers, or a thrown value
Delivered(evs) == [ok |-> TRUE, events |-> evs, err |-> ThrownOther]
Failed(err) == [ok |-> FALSE, events |-> <<>>, err |-> err]
QueryFailures == {Failed(ThrownError("timeout")), Failed(ThrownOther)}

\* the queries a run issues: nostr.query for the kind 3 record (line 144) and
\* testPool.query to the relay at a 0-based position of the list (line 91)
FollowQuery == [to |-> "followers", idx |-> 0]
RelayQuery(idx) == [to |-> "relay", idx |-> idx]

\* tags of a kind 3 record
Tags == {<<"p", "pk1">>, <<"p", "">>, <<"p">>, <<"e", "pk2">>}
FollowEvents == {[tags |-> t] : t \in SeqsUpTo(Tags, MaxTags)}
FollowResponses == QueryFailures \cup {Delivered(evs) : evs \in SeqsUpTo(FollowEvents, 1)}
RelayResponses == {Failed(ThrownError("timeout"))} \cup {Delivered(evs) : evs \in SeqsUpTo(RunEvents, MaxEvents)}

----------------------------------------------------------------------------
(* getFollowers, lines 136-173: the part after the query has answered *)

\* tag => tag[0] === 'p' && tag[1]   (an absent or empty tag[1] is falsy)
IsFollowTag(tag) == Len(tag) >= 2 /\ tag[1] = "p" /\ tag[2] # ""

\* an extraction without the slice of line 158
ExtractFollowersUnbounded(tags) ==
    LET kept == SelectSeq(tags, IsFollowTag)
    IN [k \in 1..Len(kept) |-> kept[k][2]]

\* .filter(...).map(tag => tag[1]).slice(0, 50)
ExtractFollowers(tags) ==
    LET kept == SelectSeq(tags, IsFollowTag)
        mapped == [k \in 1..Len(kept) |-> kept[k][2]]
    IN SubSeq(mapped, 1, Min(FollowLimit, Len(mapped)))

\* the outcome of getFollowers on a query answer: the follower list, or the Error it throws
getFollowers(resp) ==
    IF ~resp.ok
    THEN [ok |-> FALSE, followers |-> <<>>,
          err |-> ThrownError(ErrMessage(resp.err, "Failed to fetch follow list").text)]
    ELSE IF Len(resp.events) = 0
    THEN [ok |-> FALSE, followers |-> <<>>,
          err |-> ThrownError("No follow list found. Please follow some users first.")]
    ELSE LET fl == ExtractFollowers(resp.events[1].tags) IN
         IF Len(fl) = 0
         THEN [ok |-> FALSE, followers |-> <<>>,
               err |-> ThrownError("Your follow list is empty. Please follow some users first.")]
         ELSE [ok |-> TRUE, followers |-> fl, err |-> ThrownOther]

----------------------------------------------------------------------------
(* testRelayPerformance, lines 54-134 *)

\* calculateEventSize, lines 48-52: the byte length of the event's JSON text
calculateEventSize(event) == event.size

RECURSIVE SumSizes(_)
SumSizes(evs) == IF evs = <<>> THEN 0 ELSE calculateEventSize(Head(evs)) + SumSizes(Tail(evs))

\* firstEventTime ? firstEventTime - startTime : duration   (null and 0 are falsy)
Latency(firstEventTime, start, duration) ==
    IF ~IsNull(firstEventTime) /\ firstEventTime[1] # 0
    THEN firstEventTime[1] - start
    ELSE duration

\* duration > 0 ? (totalBytes / duration) * 1000 : 0
Bandwidth(totalBytes, duration) ==
    IF duration > 0 THEN Frac(totalBytes * 1000, duration) ELSE Whole(0)

\* lines 93-119: the query has delivered evs; endTime is read, then, inside the
\* loop over the events, firstEventTime (iterTime is that later reading)
ProbeSuccess(relay, fl, evs, start, endTime, iterTime) ==
    LET firstEventTime == IF Len(evs) > 0 THEN Some(iterTime) ELSE Null
        totalBytes == SumSizes(evs)
        duration == endTime - start
    IN [relay |-> relay,
        success |-> TRUE,
        latency |-> Latency(firstEventTime, start, duration),
        bandwidth |-> Bandwidth(totalBytes, duration),
        duration |-> duration,
        eventCount |-> Len(evs),
        totalBytes |-> totalBytes,
        followerCount |-> Len(fl),
        eventIds |-> [k \in 1..Len(evs) |-> evs[k].id],
        error |-> Null]

\* a catch block that returns a bare failure: no follower count, no error text
ProbeFailureBare(relay, fl, err) ==
    [relay |-> relay,
     success |-> FALSE,
     latency |-> 0,
     bandwidth |-> Whole(0),
     duration |-> 0,
     eventCount |-> 0,
     totalBytes |-> 0,
     followerCount |-> 0,
     eventIds |-> <<>>,
     error |-> Null]

\* lines 120-133: the catch block
ProbeFailure(relay, fl, err) ==
    [relay |-> relay,
     success |-> FALSE,
     latency |-> 0,
     bandwidth |-> Whole(0),
     duration |-> 0,
     eventCount |-> 0,
     totalBytes |-> 0,
     followerCount |-> Len(fl),
     eventIds |-> <<>>,
     error |-> Some(ErrMessage(err, "Unknown error"))]

\* a probe that reports the number of events as its followerCount
testRelayPerformanceCountsEvents(relay, fl, resp, start, endTime, iterTime) ==
    LET x == IF resp.ok
             THEN ProbeSuccess(relay, fl, resp.events, start, endTime, iterTime)
             ELSE ProbeFailure(relay, fl, resp.err)
    IN [x EXCEPT !.followerCount = x.eventCount]

\* the result of one probe, given the query's answer and the clock readings
testRelayPerformance(relay, fl, resp, start, endTime, iterTime) ==
    IF resp.ok
    THEN ProbeSuccess(relay, fl, resp.events, start, endTime, iterTime)
    ELSE ProbeFailure(relay, fl, resp.err)

----------------------------------------------------------------------------
(* calculateOverlap, lines 175-208 *)

IsSuccess(r) == r.success

\* a comparison whose percentage is the share of relay1's own identifiers
ComparePairOwnShare(relay1, relay2) ==
    LET set2 == Range(relay2.eventIds)
        InSet2(id) == id \in set2
        common == Len(SelectSeq(relay1.eventIds, InSet2))
        relay1Only == Len(relay1.eventIds) - common
        relay2Only == Len(relay2.eventIds) - common
        totalUnique == relay1Only + relay2Only + common
    IN [relay1 |-> relay1.relay,
        relay2 |-> relay2.relay,
        relay1Only |-> relay1Only,
        relay2Only |-> relay2Only,
        common |-> common,
        relay1Total |-> Len(relay1.eventIds),
        relay2Total |-> Len(relay2.eventIds),
        overlapPercentage |-> IF totalUnique > 0 THEN Frac(relay1Only * 100, totalUnique)
                                                 ELSE Whole(0)]

\* a comparison that counts the identifiers only one relay has as sets
ComparePairSetOnly(relay1, relay2) ==
    LET set1 == Range(relay1.eventIds)
        set2 == Range(relay2.eventIds)
        InSet2(id) == id \in set2
        common == Len(SelectSeq(relay1.eventIds, InSet2))
        relay1Only == Cardinality(set1 \ set2)
        relay2Only == Cardinality(set2 \ set1)
        totalUnique == relay1Only + relay2Only + common
    IN [relay1 |-> relay1.relay,
        relay2 |-> relay2.relay,
        relay1Only |-> relay1Only,
        relay2Only |-> relay2Only,
        common |-> common,
        relay1Total |-> Len(relay1.eventIds),
        relay2Total |-> Len(relay2.eventIds),
        overlapPercentage |-> IF totalUnique > 0 THEN Frac(common * 100, totalUnique)
                                                 ELSE Whole(0)]

\* the body of the inner loop, lines 182-203
ComparePair(relay1, relay2) ==
    LET set2 == Range(relay2.eventIds)
        InSet2(id) == id \in set2
        common == Len(SelectSeq(relay1.eventIds, InSet2))
        relay1Only == Len(relay1.eventIds) - common
        relay2Only == Len(relay2.eventIds) - common
        totalUnique == relay1Only + relay2Only + common
    IN [relay1 |-> relay1.relay,
        relay2 |-> relay2.relay,
        relay1Only |-> relay1Only,
        relay2Only |-> relay2Only,
        common |-> common,
        relay1Total |-> Len(relay1.eventIds),
        relay2Total |-> Len(relay2.eventIds),
        overlapPercentage |-> IF totalUnique > 0 THEN Frac(common * 100, totalUnique)
                                                 ELSE Whole(0)]

\* the two loops, lines 180-205, from position (a, b) on (1-based)
RECURSIVE OverlapLoop(_, _, _)
OverlapLoop(sr, a, b) ==
    IF a > Len(sr) THEN <<>>
    ELSE IF b > Len(sr) THEN OverlapLoop(sr, a + 1, a + 2)
    ELSE <<ComparePair(sr[a], sr[b])>> \o OverlapLoop(sr, a, b + 1)

\* an analysis that compares every entry, failed probes included
calculateOverlapUnfiltered(res) == OverlapLoop(res, 1, 2)

calculateOverlap(res) ==
    LET successfulResults == SelectSeq(res, IsSuccess)
    IN OverlapLoop(successfulResults, 1, 2)

----------------------------------------------------------------------------
(* startTest, lines 210-263 *)

Phase(text, args) == [text |-> text, args |-> args]

\* a progress formula that counts the relays still to come
ProbeProgressRemaining(idx, n) == Frac(30 * n + (n - idx) * 60, n)

\* setProgress(30 + (i / relays.length) * 60), line 232 (idx is the 0-based i)
ProbeProgress(idx, n) == Frac(30 * n + idx * 60, n)

\* testResults.filter(r => !r.success).length, line 250
FailedCount(tr) == Len(SelectSeq(tr, LAMBDA x : ~x.success))

\* a loop that drops the result of a failed probe
PushSuccessOnly(tr, result) == IF result.success THEN Append(tr, result) ELSE tr

\* a loop that puts each result in front of the earlier ones
PushFront(tr, result) == <<result>> \o tr

\* testResults.push(result), line 235
PushResult(tr, result) == Append(tr, result)

\* lines 249-255: the error state after the classification of the outcome
Classify(tr, err) ==
    IF FailedCount(tr) = Len(tr)
    THEN Some(Msg("All relays failed analysis. Please check your internet connection and try again."))
    ELSE IF FailedCount(tr) > 0
    THEN Some([text |-> "out of relays failed analysis.",
               failed |-> FailedCount(tr), total |-> Len(tr)])
    ELSE err

\* the locals of an invocation that has returned are gone; the logs are kept
Return(r) ==
    /\ pc' = [pc EXCEPT ![r] = "done"]
    /\ followers' = [followers EXCEPT ![r] = <<>>]
    /\ i' = [i EXCEPT ![r] = 0]
    /\ testResults' = [testResults EXCEPT ![r] = <<>>]
    /\ startTime' = [startTime EXCEPT ![r] = 0]
    /\ queryLog' = queryLog

\* an end of the run without the finally block: isRunning stays as it is
FinishStillRunning(r, tr) ==
    /\ currentPhase' = Phase("Analysis completed!", <<>>)
    /\ progress' = Whole(100)
    /\ overlapResults' = Some(calculateOverlap(tr))
    /\ results' = Some(tr)
    /\ error' = Classify(tr, error)
    /\ isRunning' = isRunning
    /\ Return(r)

\* an end of the run that publishes the results without the overlap analysis
FinishKeepsOverlap(r, tr) ==
    /\ currentPhase' = Phase("Analysis completed!", <<>>)
    /\ progress' = Whole(100)
    /\ overlapResults' = overlapResults
    /\ results' = Some(tr)
    /\ error' = Classify(tr, error)
    /\ isRunning' = FALSE
    /\ Return(r)

\* lines 238-261: the loop is over; nothing is awaited from here to the return
Finish(r, tr) ==
    /\ currentPhase' = Phase("Analysis completed!", <<>>)
    /\ progress' = Whole(100)
    /\ overlapResults' = Some(calculateOverlap(tr))
    /\ results' = Some(tr)
    /\ error' = Classify(tr, error)
    /\ isRunning' = FALSE
    /\ Return(r)

\* a startTest whose reset leaves the error of the previous run in place
startTestKeepsError(r) ==
    /\ pc[r] = "idle"
    /\ \A q \in 1..(r - 1) : pc[q] # "idle"
    /\ IF closureIsRunning
       THEN /\ pc' = [pc EXCEPT ![r] = "rejected"]
            /\ UNCHANGED <<hookState, progressLog, queryLog>>
       ELSE /\ isRunning' = TRUE
            /\ results' = Null
            /\ overlapResults' = Null
            /\ error' = error
            /\ currentPhase' = Phase("Fetching your follow list...", <<>>)
            /\ progress' = Whole(10)
            /\ progressLog' = [progressLog EXCEPT ![r] = <<Whole(0), Whole(10)>>]
            /\ queryLog' = [queryLog EXCEPT ![r] = <<FollowQuery>>]
            /\ pc' = [pc EXCEPT ![r] = "fetching"]
    /\ UNCHANGED <<closureIsRunning, relays, followers, i, testResults, startTime, now,
                   fnArg, fnRet, page>>

\* a startTest that clears the published results before it tests the guard
startTestResetFirst(r) ==
    /\ pc[r] = "idle"
    /\ \A q \in 1..(r - 1) : pc[q] # "idle"
    /\ results' = Null
    /\ overlapResults' = Null
    /\ error' = Null
    /\ IF closureIsRunning
       THEN /\ pc' = [pc EXCEPT ![r] = "rejected"]
            /\ UNCHANGED <<isRunning, progress, currentPhase, progressLog, queryLog>>
       ELSE /\ isRunning' = TRUE
            /\ currentPhase' = Phase("Fetching your follow list...", <<>>)
            /\ progress' = Whole(10)
            /\ progressLog' = [progressLog EXCEPT ![r] = <<Whole(0), Whole(10)>>]
            /\ queryLog' = [queryLog EXCEPT ![r] = <<FollowQuery>>]
            /\ pc' = [pc EXCEPT ![r] = "fetching"]
    /\ UNCHANGED <<closureIsRunning, relays, followers, i, testResults, startTime, now,
                   fnArg, fnRet, page>>

\* lines 210-221 and 138-144: the guard, the reset, and getFollowers up to its query
startTest(r) ==
    /\ pc[r] = "idle"
    /\ \A q \in 1..(r - 1) : pc[q] # "idle"
    /\ IF closureIsRunning
       THEN /\ pc' = [pc EXCEPT ![r] = "rejected"]
            /\ UNCHANGED <<hookState, progressLog, queryLog>>
       ELSE /\ isRunning' = TRUE
            /\ results' = Null
            /\ overlapResults' = Null
            /\ error' = Null
            /\ currentPhase' = Phase("Fetching your follow list...", <<>>)
            /\ progress' = Whole(10)
            /\ progressLog' = [progressLog EXCEPT ![r] = <<Whole(0), Whole(10)>>]
            /\ queryLog' = [queryLog EXCEPT ![r] = <<FollowQuery>>]
            /\ pc' = [pc EXCEPT ![r] = "fetching"]
    /\ UNCHANGED <<closureIsRunning, relays, followers, i, testResults, startTime, now,
                   fnArg, fnRet, page>>

\* lines 144-172 and, when getFollowers throws, 257-261
FollowersAnswer(r, resp) ==
    /\ pc[r] = "fetching"
    /\ LET out == getFollowers(resp) IN
       IF out.ok
       THEN /\ followers' = [followers EXCEPT ![r] = out.followers]
            /\ progress' = Whole(25)
            /\ progressLog' = [progressLog EXCEPT ![r] = Append(@, Whole(25))]
            /\ pc' = [pc EXCEPT ![r] = "resolved"]
            /\ UNCHANGED <<isRunning, results, overlapResults, currentPhase, error,
                           i, testResults, startTime, queryLog>>
       ELSE /\ error' = Some(ErrMessage(out.err, "Analysis failed"))
            /\ progress' = Whole(0)
            /\ progressLog' = [progressLog EXCEPT ![r] = Append(@, Whole(0))]
            /\ isRunning' = FALSE
            /\ Return(r)
            /\ UNCHANGED <<results, overlapResults, currentPhase>>
    /\ UNCHANGED <<closureIsRunning, relays, now, fnArg, fnRet, page>>

\* a loop body that sends the query of relay idx twice
BeginProbeTwice(r, idx, start) ==
    /\ currentPhase' = Phase("Analyzing ...", <<StripWss(relays[idx + 1])>>)
    /\ progress' = ProbeProgress(idx, Len(relays))
    /\ i' = [i EXCEPT ![r] = idx]
    /\ startTime' = [startTime EXCEPT ![r] = start]
    /\ queryLog' = [queryLog EXCEPT ![r] = @ \o <<RelayQuery(idx), RelayQuery(idx)>>]
    /\ pc' = [pc EXCEPT ![r] = "probing"]
    /\ UNCHANGED <<isRunning, results, overlapResults, error>>

\* lines 229-234 and 61-91: the loop body up to the query of relay idx (0-based)
BeginProbe(r, idx, start) ==
    /\ currentPhase' = Phase("Analyzing ...", <<StripWss(relays[idx + 1])>>)
    /\ progress' = ProbeProgress(idx, Len(relays))
    /\ i' = [i EXCEPT ![r] = idx]
    /\ startTime' = [startTime EXCEPT ![r] = start]
    /\ queryLog' = [queryLog EXCEPT ![r] = Append(@, RelayQuery(idx))]
    /\ pc' = [pc EXCEPT ![r] = "probing"]
    /\ UNCHANGED <<isRunning, results, overlapResults, error>>

\* lines 223-234: startTest resumes with the followers; with no relay it runs to the end
AfterFollowers(r) ==
    /\ pc[r] = "resolved"
    /\ IF Len(relays) = 0
       THEN /\ Finish(r, <<>>)
            /\ progressLog' = [progressLog EXCEPT
                                 ![r] = @ \o <<Whole(30), Whole(95), Whole(100)>>]
            /\ now' = now
       ELSE \E start \in now..MaxClock :
            /\ BeginProbe(r, 0, start)
            /\ progressLog' = [progressLog EXCEPT
                                 ![r] = @ \o <<Whole(30), ProbeProgress(0, Len(relays))>>]
            /\ now' = start
            /\ UNCHANGED <<followers, testResults>>
    /\ UNCHANGED <<closureIsRunning, relays, fnArg, fnRet, page>>

\* lines 91-133 and 235-236: the query of relay i answers, the result is pushed,
\* and the loop goes on to the next relay or startTest runs to its end
ProbeAnswer(r, resp) ==
    /\ pc[r] = "probing"
    /\ \E endTime \in now..MaxClock : \E iterTime \in endTime..MaxClock :
       \E start \in iterTime..MaxClock :
         LET n == Len(relays)
             result == testRelayPerformance(relays[i[r] + 1], followers[r], resp,
                                            startTime[r], endTime, iterTime)
             tr == PushResult(testResults[r], result)
             last == i[r] + 1 >= n
         IN /\ ~resp.ok => endTime = now
            /\ (~resp.ok \/ Len(resp.events) = 0) => iterTime = endTime
            /\ last => start = iterTime
            /\ now' = start
            /\ IF last
               THEN /\ Finish(r, tr)
                    /\ progressLog' = [progressLog EXCEPT
                                         ![r] = @ \o <<Whole(95), Whole(100)>>]
               ELSE /\ BeginProbe(r, i[r] + 1, start)
                    /\ testResults' = [testResults EXCEPT ![r] = tr]
                    /\ progressLog' = [progressLog EXCEPT
                                         ![r] = Append(@, ProbeProgress(i[r] + 1, n))]
                    /\ UNCHANGED followers
    /\ UNCHANGED <<closureIsRunning, relays, fnArg, fnRet, page>>

\* React renders again: the callbacks of the new render capture the current state
Render ==
    /\ closureIsRunning # isRunning
    /\ closureIsRunning' = isRunning
    /\ UNCHANGED <<hookState, runLocals, relays, now, fnArg, fnRet, page>>

\* RelayPerformance.tsx:23-26: the page as first rendered, no load in flight
PageInit ==
    [testRelays |-> <<>>,
     hasLoadedNip65 |-> FALSE,
     showManualEntry |-> FALSE,
     rendered |-> [testRelays |-> <<>>, showManualEntry |-> FALSE],
     loadClosure |-> FALSE,
     loads |-> <<>>]

Init ==
    /\ isRunning = FALSE
    /\ results = Null
    /\ overlapResults = Null
    /\ progress = Whole(0)
    /\ currentPhase = Phase("", <<>>)
    /\ error = Null
    /\ closureIsRunning = FALSE
    /\ pc = [r \in Runs |-> "idle"]
    /\ relays \in SeqsUpTo(RelayUrls, MaxRelays)
    /\ followers = [r \in Runs |-> <<>>]
    /\ i = [r \in Runs |-> 0]
    /\ testResults = [r \in Runs |-> <<>>]
    /\ startTime = [r \in Runs |-> 0]
    /\ progressLog = [r \in Runs |-> <<>>]
    /\ queryLog = [r \in Runs |-> <<>>]
    /\ now = 0
    /\ fnArg = Null
    /\ fnRet = Null
    /\ page = PageInit

Next ==
    \/ \E r \in Runs : startTest(r)
    \/ \E r \in Runs : \E resp \in FollowResponses : FollowersAnswer(r, resp)
    \/ \E r \in Runs : AfterFollowers(r)
    \/ \E r \in Runs : \E resp \in RelayResponses : ProbeAnswer(r, resp)
    \/ Render

Spec == Init /\ [][Next]_vars

\* every awaited query answers or fails (the relay query by its 30 s timeout at the
\* latest), and a continuation whose promise has settled is run
Fairness ==
    \A r \in Runs :
        /\ WF_vars(\E resp \in FollowResponses : FollowersAnswer(r, resp))
        /\ WF_vars(AfterFollowers(r))
        /\ WF_vars(\E resp \in RelayResponses : ProbeAnswer(r, resp))

FairSpec == Spec /\ Fairness

----------------------------------------------------------------------------
(* Function specifications: the argument is drawn in Init, one step applies the function *)

MaxIds == 2           \* length of one relay's eventIds
MaxResults == 3       \* length of a results list handed to calculateOverlap
MaxProbeClock == 2    \* largest clock reading during one probe

IdleRuns ==
    /\ isRunning = FALSE
    /\ results = Null
    /\ overlapResults = Null
    /\ progress = Whole(0)
    /\ currentPhase = Phase("", <<>>)
    /\ error = Null
    /\ closureIsRunning = FALSE
    /\ pc = [r \in Runs |-> "idle"]
    /\ relays = <<>>
    /\ followers = [r \in Runs |-> <<>>]
    /\ i = [r \in Runs |-> 0]
    /\ testResults = [r \in Runs |-> <<>>]
    /\ startTime = [r \in Runs |-> 0]
    /\ progressLog = [r \in Runs |-> <<>>]
    /\ queryLog = [r \in Runs |-> <<>>]
    /\ now = 0
    /\ page = PageInit

orchestratorVars == <<hookState, closureIsRunning, runLocals, relays, now>>

FollowerLists == {<<"pk1">>, <<"pk1", "pk2">>}

\* the arguments of one probe: relay, followers, the query's answer, and the three
\* readings of a clock that never runs backwards
ProbeInputs ==
    {[relay |-> u, followers |-> fl, resp |-> resp, start |-> t0, endTime |-> t1, iterTime |-> t2] :
        u \in RelayUrls, fl \in FollowerLists,
        resp \in QueryFailures \cup {Delivered(evs) : evs \in SeqsUpTo(Events, MaxIds)},
        t0 \in 0..MaxProbeClock, t1 \in 0..MaxProbeClock, t2 \in 0..MaxProbeClock}

InitProbe ==
    /\ IdleRuns
    /\ fnArg \in {a \in ProbeInputs : a.start <= a.endTime /\ a.endTime <= a.iterTime}
    /\ fnRet = Null

Probe ==
    /\ fnRet = Null
    /\ fnRet' = Some(testRelayPerformance(fnArg.relay, fnArg.followers, fnArg.resp,
                                          fnArg.start, fnArg.endTime, fnArg.iterTime))
    /\ UNCHANGED <<orchestratorVars, fnArg, page>>

SpecProbe == InitProbe /\ [][Probe]_vars

\* the k-th relay of a list of distinct relays
RelayAt(k) == [scheme |-> "wss://", rest |-> ToString(k)]

\* what the relay queries of one run can answer
OverlapAnswers ==
    {Failed(ThrownError("timeout"))} \cup {Delivered(evs) : evs \in SeqsUpTo(Events, MaxIds)}

\* a results list as startTest hands it to calculateOverlap: entry k is what
\* testRelayPerformance returned for the k-th relay, given the query's answer
InitOverlap ==
    /\ IdleRuns
    /\ \E n \in 0..MaxResults : \E c \in [1..n -> OverlapAnswers] :
          fnArg = [k \in 1..n |-> testRelayPerformance(RelayAt(k), <<"pk1">>, c[k], 0, 0, 0)]
    /\ fnRet = Null

Overlap ==
    /\ fnRet = Null
    /\ fnRet' = Some(calculateOverlap(fnArg))
    /\ UNCHANGED <<orchestratorVars, fnArg, page>>

SpecOverlap == InitOverlap /\ [][Overlap]_vars

MaxFollowTags == 52   \* 'p' tags with a value in one follow list record

\* tags that the filter of line 156 drops
DroppedTags == {<<"p", "">>, <<"p">>, <<"e", "pk2">>}

\* a record with n 'p' tags of distinct values, extra tags put in after the first at
FollowTags(n, extra, at) ==
    LET valid == [k \in 1..n |-> <<"p", ToString(k)>>]
    IN SubSeq(valid, 1, at) \o extra \o SubSeq(valid, at + 1, n)

\* what the follow list query can answer
InitFollowers ==
    /\ IdleRuns
    /\ \/ fnArg \in QueryFailures
       \/ fnArg = Delivered(<<>>)
       \/ \E n \in 0..MaxFollowTags : \E at \in {0, n \div 2, n} :
          \E extra \in SeqsUpTo(DroppedTags, 1) :
              fnArg = Delivered(<<[tags |-> FollowTags(n, extra, at)]>>)
    /\ fnRet = Null

Followers ==
    /\ fnRet = Null
    /\ fnRet' = Some(getFollowers(fnArg))
    /\ UNCHANGED <<orchestratorVars, fnArg, page>>

SpecFollowers == InitFollowers /\ [][Followers]_vars

----------------------------------------------------------------------------
(* useNip65RelayList (src/unnamed/part_002): parseRelayTags, lines 22-50 *)

MaxRelayTags == 3     \* tags of one kind 10002 record

\* tags of a kind 10002 record: name, URL and marker, the last two possibly absent
RelayTags ==
    {<<"r", "wss://a">>, <<"r", "wss://a", "read">>, <<"r", "wss://b", "write">>,
     <<"r", "wss://b", "other">>, <<"r", "wss://a", "">>, <<"r", "", "read">>,
     <<"r">>, <<"p", "wss://a", "read">>, <<>>}

\* const marker = tag[2]: undefined when the tag has no third element
Marker(tag) == IF Len(tag) >= 3 THEN Some(tag[3]) ELSE Null

\* tag[0] === 'r' && tag[1], line 26
IsRelayTag(tag) == Len(tag) >= 2 /\ tag[1] = "r" /\ tag[2] # ""

\* an entry with the flags the wrong way round: 'read' clears read
RelayOfTagSwapped(tag) ==
    [url |-> tag[2],
     read |-> Marker(tag) # Some("read"),
     write |-> Marker(tag) = Some("read") \/ Marker(tag) # Some("write")]

\* lines 27-45: the entry pushed for one tag
RelayOfTag(tag) ==
    [url |-> tag[2],
     read |-> IF Marker(tag) = Some("read") THEN TRUE
              ELSE IF Marker(tag) = Some("write") THEN FALSE ELSE TRUE,
     write |-> IF Marker(tag) = Some("read") THEN FALSE ELSE TRUE]

\* the loop of lines 25-47, from tag k on
RECURSIVE ParseLoop(_, _)
ParseLoop(tags, k) ==
    IF k > Len(tags) THEN <<>>
    ELSE (IF IsRelayTag(tags[k]) THEN <<RelayOfTag(tags[k])>> ELSE <<>>)
         \o ParseLoop(tags, k + 1)

parseRelayTags(tags) == ParseLoop(tags, 1)

InitNip65 ==
    /\ IdleRuns
    /\ fnArg \in SeqsUpTo(RelayTags, MaxRelayTags)
    /\ fnRet = Null

ParseTags ==
    /\ fnRet = Null
    /\ fnRet' = Some(parseRelayTags(fnArg))
    /\ UNCHANGED <<orchestratorVars, fnArg, page>>

SpecNip65 == InitNip65 /\ [][ParseTags]_vars

----------------------------------------------------------------------------
(* The RelayPerformance page (src/src/pages/RelayPerformance.tsx): the list of
   relays to test.  page.testRelays is the React state; page.rendered is what
   the handlers of the last render captured; page.loadClosure is the
   hasLoadedNip65 captured by the loadNip65Relays callback, which React makes
   anew only when a dependency of line 106 changes; page.loads holds, per
   loadNip65Relays call awaiting fetchRelayList, that captured value. *)

MaxList == 3          \* length of the test relay list
MaxLoads == 2         \* loadNip65Relays calls awaiting their answer

\* what the user types into the input of line 279
TypedTexts == {"", "  ", " a ", "wss://a", "ws://a", "relay.damus.io"}

\* newRelay.trim()
Trim(text) == IF text = "  " THEN "" ELSE IF text = " a " THEN "a" ELSE text

\* relayUrl.startsWith('wss://') || relayUrl.startsWith('ws://')
HasScheme(text) == text \in {"wss://a", "ws://a"}

\* lines 54-57
NormalizeUrl(text) == IF HasScheme(text) THEN text ELSE "wss://" \o text

\* the names of the quick add buttons, lines 296-302
QuickAddNames == {"nos.lol", "relay.nostr.band"}

\* lines 99-102 and 110-113
DefaultRelays == <<"wss://relay.primal.net", "wss://relay.damus.io">>

\* [...new Set(urls)], line 83: a Set keeps the order of first insertion
RECURSIVE SetOrder(_)
SetOrder(urls) ==
    IF urls = <<>> THEN <<>>
    ELSE <<Head(urls)>> \o SetOrder(SelectSeq(Tail(urls), LAMBDA u : u # Head(urls)))

\* an addition that does not look the URL up in the list
AppendAlways(list, relayUrl) == Append(list, relayUrl)

\* lines 59-61 and 309-311
AppendIfNew(list, relayUrl) == IF relayUrl \in Range(list) THEN list ELSE Append(list, relayUrl)

\* what fetchRelayList ends with (part_002:52-85): the parsed relays of the
\* record, or a throw for a failed query, no record, or a record without relays
Nip65Answers ==
    {[ok |-> FALSE, relays |-> <<>>]} \cup
    {[ok |-> TRUE, relays |-> parseRelayTags(tags)] :
        tags \in {t \in SeqsUpTo(RelayTags, MaxRelayTags) : parseRelayTags(t) # <<>>}}

pageFrame == <<orchestratorVars, fnArg, fnRet>>

\* lines 51-63; the controls are there when the render had showManualEntry (line 274)
addRelay(text) ==
    /\ page.rendered.showManualEntry
    /\ Len(page.rendered.testRelays) < MaxList
    /\ Trim(text) # ""
    /\ page' = [page EXCEPT !.testRelays =
                   AppendIfNew(page.rendered.testRelays, NormalizeUrl(Trim(text)))]
    /\ UNCHANGED pageFrame

\* lines 307-312
quickAdd(name) ==
    /\ page.rendered.showManualEntry
    /\ Len(page.rendered.testRelays) < MaxList
    /\ page' = [page EXCEPT !.testRelays =
                   AppendIfNew(page.rendered.testRelays, "wss://" \o name)]
    /\ UNCHANGED pageFrame

\* lines 65-67 (index is 1-based here)
removeRelay(index) ==
    /\ index \in 1..Len(page.rendered.testRelays)
    /\ page' = [page EXCEPT !.testRelays =
                   [k \in 1..(Len(page.rendered.testRelays) - 1) |->
                       IF k < index THEN page.rendered.testRelays[k]
                                    ELSE page.rendered.testRelays[k + 1]]]
    /\ UNCHANGED pageFrame

\* lines 75-79: loadNip65Relays up to its await (button, or the effect of line 118)
loadNip65Relays ==
    /\ Len(page.loads) < MaxLoads
    /\ page' = [page EXCEPT !.loads = Append(@, page.loadClosure)]
    /\ UNCHANGED pageFrame

\* lines 79-104: fetchRelayList has answered the k-th call in flight
LoadAnswer(k, answer) ==
    /\ k \in 1..Len(page.loads)
    /\ LET rest == [m \in 1..(Len(page.loads) - 1) |->
                       IF m < k THEN page.loads[m] ELSE page.loads[m + 1]]
           relayUrls == [m \in 1..Len(answer.relays) |-> answer.relays[m].url]
       IN page' = IF answer.ok
                  THEN [page EXCEPT !.testRelays = SetOrder(relayUrls),
                                    !.hasLoadedNip65 = TRUE,
                                    !.loads = rest]
                  ELSE IF ~page.loads[k]
                  THEN [page EXCEPT !.testRelays = DefaultRelays,
                                    !.showManualEntry = TRUE,
                                    !.loads = rest]
                  ELSE [page EXCEPT !.loads = rest]
    /\ UNCHANGED pageFrame

\* lines 108-115
switchToManualEntry ==
    /\ page' = [page EXCEPT !.showManualEntry = TRUE,
                            !.testRelays = DefaultRelays,
                            !.hasLoadedNip65 = FALSE]
    /\ UNCHANGED pageFrame

\* React renders the page again: the handlers capture the current state, and the
\* loadNip65Relays callback either stays or is made anew
PageRender ==
    /\ \E capture \in {page.loadClosure, page.hasLoadedNip65} :
          page' = [page EXCEPT !.rendered = [testRelays |-> page.testRelays,
                                             showManualEntry |-> page.showManualEntry],
                               !.loadClosure = capture]
    /\ page' # page
    /\ UNCHANGED pageFrame

InitPage ==
    /\ IdleRuns
    /\ fnArg = Null
    /\ fnRet = Null

NextPage ==
    \/ \E text \in TypedTexts : addRelay(text)
    \/ \E name \in QuickAddNames : quickAdd(name)
    \/ \E index \in 1..MaxList : removeRelay(index)
    \/ loadNip65Relays
    \/ \E k \in 1..MaxLoads : \E answer \in Nip65Answers : LoadAnswer(k, answer)
    \/ switchToManualEntry
    \/ PageRender

SpecPage == InitPage /\ [][NextPage]_vars

----------------------------------------------------------------------------
(* Properties *)

Active(r) == pc[r] \in {"fetching", "resolved", "probing"}
Published == results[1]

\* x is a result testRelayPerformance can return for this relay and this many
\* followers, whatever happened to the other relays of the list
IsolatedOutcome(x, relay, n) ==
    \E resp \in RelayResponses : \E t0 \in 0..MaxClock : \E t1 \in t0..MaxClock :
    \E t2 \in t1..MaxClock :
        x = testRelayPerformance(relay, [k \in 1..n |-> "pk1"], resp, t0, t1, t2)

NonDecreasing(log) == \A k \in 1..(Len(log) - 1) : FracLeq(log[k], log[k + 1])
InPercentRange(x) == FracLeq(Whole(0), x) /\ FracLeq(x, Whole(100))

\* C1: at most one run is active at any time: a startTest issued while an earlier
\* invocation has not returned starts no follower fetch and no probe.
C1_AtMostOneRun == Cardinality({r \in Runs : Active(r)}) <= 1

\* C2: whenever results are published, they hold exactly one result per relay of
\* the list, in the order of the list, failed probes included.
C2_OneResultPerRelay ==
    ~IsNull(results) =>
        /\ Len(Published) = Len(relays)
        /\ \A k \in 1..Len(relays) : Published[k].relay = relays[k]

C2_Witness ==
    /\ ~IsNull(results)
    /\ Len(Published) = 2
    /\ relays[1] # relays[2]
    /\ Published[1].success
    /\ ~Published[2].success

\* C3: a failed probe stops nothing and changes no other result: during the loop
\* every relay before the current one has its result, failed or not, each result is
\* one the probe of that relay alone returns, and the run goes on to the overlap
\* analysis and publishes all of them.
C3_ProbeFailuresIsolated ==
    /\ \A r \in Runs : pc[r] = "probing" =>
          /\ Len(testResults[r]) = i[r]
          /\ \A k \in 1..Len(testResults[r]) :
                IsolatedOutcome(testResults[r][k], relays[k], Len(followers[r]))
    /\ ~IsNull(results) =>
          /\ ~IsNull(overlapResults)
          /\ Len(Published) = Len(relays)
          /\ \A k \in 1..Len(Published) :
                IsolatedOutcome(Published[k], relays[k], Published[k].followerCount)

C3_Witness ==
    /\ ~IsNull(results)
    /\ ~IsNull(overlapResults)
    /\ Len(Published) = 2
    /\ ~Published[1].success
    /\ Published[2].success
    /\ Published[2].eventCount = 1

\* C4: when a run returns after its probe phase with k failed probes out of N, the
\* error is absent if k = 0, the summary naming k and N if 0 < k < N, and the
\* all-failed summary if every probe failed.
C4_ErrorSummary ==
    [][\A r \in Runs : (pc[r] \in {"resolved", "probing"} /\ pc'[r] = "done") =>
          LET k == FailedCount(results'[1])
              n == Len(results'[1])
          IN /\ k = 0 => error' = Null
             /\ (0 < k /\ k < n) =>
                   error' = Some([text |-> "out of relays failed analysis.",
                                  failed |-> k, total |-> n])
             /\ (n > 0 /\ k = n) =>
                   error' = Some(Msg("All relays failed analysis. Please check your internet connection and try again."))
      ]_vars

\* C5: with an empty relay list and a resolvable follower list the run completes
\* with results = [], overlapResults = [], progress = 100, isRunning = false and
\* no error.
C5_EmptyListCompletes ==
    [][\A r \in Runs : (pc[r] = "resolved" /\ pc'[r] = "done" /\ relays = <<>>) =>
          /\ results' = Some(<<>>)
          /\ overlapResults' = Some(<<>>)
          /\ progress' = Whole(100)
          /\ isRunning' = FALSE
          /\ error' = Null
      ]_vars

\* C6: when follower resolution fails the run returns without a probe, results and
\* overlapResults still absent, progress 0, the error set and isRunning false.
C6_ResolutionFailure ==
    [][\A r \in Runs : (pc[r] = "fetching" /\ pc'[r] = "done") =>
          /\ testResults[r] = <<>>
          /\ results' = Null
          /\ overlapResults' = Null
          /\ progress' = Whole(0)
          /\ ~IsNull(error')
          /\ isRunning' = FALSE
      ]_vars

\* C7 as stated: the values one run passes to setProgress lie in [0,100] and never
\* decrease from one update to the next; 0 is written only by the reset at the start.
C7_ProgressMonotone ==
    \A r \in Runs :
        /\ \A k \in 1..Len(progressLog[r]) : InPercentRange(progressLog[r][k])
        /\ NonDecreasing(progressLog[r])
        /\ \A k \in 2..Len(progressLog[r]) : progressLog[r][k] # Whole(0)

\* C7 as amended: the values one run passes to setProgress lie in [0,100] and never
\* decrease from one update to the next, except that the last update of a run that
\* has returned may be the reset to 0 of the catch block; 0 is written nowhere else
\* but by the reset at the start.
C7_ProgressMonotoneUntilFailure ==
    \A r \in Runs :
        LET log == progressLog[r] IN
        /\ \A k \in 1..Len(log) : InPercentRange(log[k])
        /\ \A k \in 2..Len(log) :
              \/ FracLeq(log[k - 1], log[k]) /\ log[k] # Whole(0)
              \/ k = Len(log) /\ log[k] = Whole(0) /\ pc[r] = "done"
        /\ (Len(log) > 0 /\ log[Len(log)] # Whole(0)) => NonDecreasing(log)

C7_Witness ==
    \E r \in Runs : \E q \in Runs :
        /\ pc[r] = "done" /\ progressLog[r] = <<Whole(0), Whole(10), Whole(0)>>
        /\ pc[q] = "done" /\ Len(progressLog[q]) = 8 /\ progressLog[q][8] = Whole(100)

\* C8: a successful probe result has latency <= duration when at least one event
\* arrived and latency = duration when none arrived.
C8_LatencyWithinDuration ==
    (~IsNull(fnRet) /\ fnRet[1].success) =>
        /\ fnRet[1].eventCount > 0 => fnRet[1].latency <= fnRet[1].duration
        /\ fnRet[1].eventCount = 0 => fnRet[1].latency = fnRet[1].duration

\* C9: every overlap result has overlapPercentage in [0,100] and relay1Only,
\* relay2Only and common >= 0, also when an identifier repeats in eventIds.
C9_OverlapRanges ==
    ~IsNull(fnRet) =>
        \A k \in 1..Len(fnRet[1]) :
            /\ InPercentRange(fnRet[1][k].overlapPercentage)
            /\ fnRet[1][k].relay1Only >= 0
            /\ fnRet[1][k].relay2Only >= 0
            /\ fnRet[1][k].common >= 0

\* C10 as stated: overlapPercentage is 0 exactly when
\* relay1Only + relay2Only + common is 0.
C10_ZeroIffEmptyUnion ==
    ~IsNull(fnRet) =>
        \A k \in 1..Len(fnRet[1]) :
            (fnRet[1][k].overlapPercentage = Whole(0)) <=>
            (fnRet[1][k].relay1Only + fnRet[1][k].relay2Only + fnRet[1][k].common = 0)

\* C10 as amended: overlapPercentage is 0 exactly when common is 0, which includes
\* every pair with relay1Only + relay2Only + common = 0.
C10_ZeroIffNoCommon ==
    ~IsNull(fnRet) =>
        \A k \in 1..Len(fnRet[1]) :
            /\ (fnRet[1][k].overlapPercentage = Whole(0)) <=> (fnRet[1][k].common = 0)
            /\ (fnRet[1][k].relay1Only + fnRet[1][k].relay2Only + fnRet[1][k].common = 0)
                  => fnRet[1][k].overlapPercentage = Whole(0)

C10_Witness ==
    /\ ~IsNull(fnRet)
    /\ \E k \in 1..Len(fnRet[1]) :
          /\ fnRet[1][k].common = 0
          /\ fnRet[1][k].relay1Only > 0
          /\ fnRet[1][k].relay2Only > 0
          /\ fnRet[1][k].overlapPercentage = Whole(0)
    /\ \E k \in 1..Len(fnRet[1]) :
          /\ fnRet[1][k].common > 0
          /\ fnRet[1][k].overlapPercentage # Whole(0)

\* the success entries of the list handed to calculateOverlap, in input order
SuccessEntries == SelectSeq(fnArg, LAMBDA x : x.success)

\* the place of the pair (a, b), a < b, among the pairs of 1..n in lexicographic order
PairPosition(a, b, n) == (a - 1) * n - ((a - 1) * a) \div 2 + (b - a)

\* C11: for every pair of successful results with identifier lists A and B the
\* overlap result of the pair has common = |set(A) \cap set(B)|,
\* relay1Only = |set(A) \ set(B)|, relay2Only = |set(B) \ set(A)| and
\* overlapPercentage = 100 * common / |set(A) \cup set(B)| (0 for an empty union).
C11_SetCounts ==
    ~IsNull(fnRet) =>
        \A a \in 1..Len(SuccessEntries) : \A b \in (a + 1)..Len(SuccessEntries) :
            \E k \in 1..Len(fnRet[1]) :
                LET A == Range(SuccessEntries[a].eventIds)
                    B == Range(SuccessEntries[b].eventIds)
                    o == fnRet[1][k]
                IN /\ o.relay1 = SuccessEntries[a].relay
                   /\ o.relay2 = SuccessEntries[b].relay
                   /\ o.common = Cardinality(A \cap B)
                   /\ o.relay1Only = Cardinality(A \ B)
                   /\ o.relay2Only = Cardinality(B \ A)
                   /\ o.overlapPercentage =
                         IF Cardinality(A \cup B) > 0
                         THEN Frac(100 * Cardinality(A \cap B), Cardinality(A \cup B))
                         ELSE Whole(0)

\* C12: every overlap result belongs to a pair of successful results, has
\* relay1Total and relay2Total equal to the lengths of the pair's eventIds lists,
\* and relay1Only + common = relay1Total and relay2Only + common = relay2Total.
C12_Partition ==
    ~IsNull(fnRet) =>
        \A k \in 1..Len(fnRet[1]) :
            LET o == fnRet[1][k] IN
            /\ \E a \in 1..Len(SuccessEntries) : \E b \in (a + 1)..Len(SuccessEntries) :
                  /\ o.relay1 = SuccessEntries[a].relay
                  /\ o.relay2 = SuccessEntries[b].relay
                  /\ o.relay1Total = Len(SuccessEntries[a].eventIds)
                  /\ o.relay2Total = Len(SuccessEntries[b].eventIds)
            /\ o.relay1Only + o.common = o.relay1Total
            /\ o.relay2Only + o.common = o.relay2Total

C12_Witness ==
    /\ ~IsNull(fnRet)
    /\ \E k \in 1..Len(fnRet[1]) :
          /\ fnRet[1][k].relay1Total = 2
          /\ fnRet[1][k].relay2Total = 2
          /\ fnRet[1][k].common = 1
          /\ fnRet[1][k].relay1Only = 1
          /\ fnRet[1][k].relay2Only = 1

\* C13: calculateOverlap returns exactly one result for each pair (a, b), a < b, of
\* the success entries of its input taken in input order, in lexicographic order
\* of (a, b): k success entries give k * (k - 1) / 2 results, none for k <= 1; no
\* result pairs an entry with itself and none names a relay whose probe failed.
C13_OnePerPair ==
    ~IsNull(fnRet) =>
        LET n == Len(SuccessEntries)
            out == fnRet[1]
        IN /\ Len(out) = (n * (n - 1)) \div 2
           /\ n <= 1 => out = <<>>
           /\ \A a \in 1..n : \A b \in (a + 1)..n :
                 /\ out[PairPosition(a, b, n)].relay1 = SuccessEntries[a].relay
                 /\ out[PairPosition(a, b, n)].relay2 = SuccessEntries[b].relay
           /\ \A k \in 1..Len(out) :
                 /\ out[k].relay1 # out[k].relay2
                 /\ \A m \in 1..Len(fnArg) :
                       ~fnArg[m].success =>
                          /\ out[k].relay1 # fnArg[m].relay
                          /\ out[k].relay2 # fnArg[m].relay

C13_Witness ==
    /\ ~IsNull(fnRet)
    /\ Len(fnArg) = 3
    /\ \A m \in 1..3 : fnArg[m].success
    /\ Len(fnRet[1]) = 3
    /\ fnRet[1][1].relay1 = RelayAt(1) /\ fnRet[1][1].relay2 = RelayAt(2)
    /\ fnRet[1][2].relay1 = RelayAt(1) /\ fnRet[1][2].relay2 = RelayAt(3)
    /\ fnRet[1][3].relay1 = RelayAt(2) /\ fnRet[1][3].relay2 = RelayAt(3)

\* C15: testRelayPerformance returns a result whatever the query does: when the
\* query throws, success is false, latency, bandwidth, duration, eventCount and
\* totalBytes are 0, eventIds is empty, error is set and followerCount is the
\* number of followers supplied; a result with success = true has no error.
C15_ProbeNeverRaises ==
    ~IsNull(fnRet) =>
        LET x == fnRet[1] IN
        /\ x.success = fnArg.resp.ok
        /\ x.relay = fnArg.relay
        /\ ~fnArg.resp.ok =>
              /\ x.latency = 0
              /\ x.bandwidth = Whole(0)
              /\ x.duration = 0
              /\ x.eventCount = 0
              /\ x.totalBytes = 0
              /\ x.eventIds = <<>>
              /\ ~IsNull(x.error)
              /\ x.followerCount = Len(fnArg.followers)
        /\ x.success => IsNull(x.error)

C15_Witness ==
    /\ ~IsNull(fnRet)
    /\ fnArg.resp = Failed(ThrownOther)
    /\ ~fnRet[1].success
    /\ fnRet[1].followerCount = 2
    /\ fnRet[1].error = Some(Msg("Unknown error"))

\* C16, first half: isRunning is true at every point between the acceptance of a
\* startTest and its return.
C16_RunningUntilReturn == \A r \in Runs : Active(r) => isRunning

\* C16, second half: provided every query answers or fails, every accepted
\* startTest returns, and isRunning is false when it does.
C16_EventuallyReturns == \A r \in Runs : Active(r) ~> (pc[r] = "done" /\ ~isRunning)

\* C17: the probe of a relay is started only when the probes of all relays before
\* it have returned their results, and at every moment at most one probe (one open
\* relay connection) is in flight.
C17_OneProbeInFlight ==
    /\ \A r \in Runs : pc[r] = "probing" =>
          /\ i[r] < Len(relays)
          /\ Len(testResults[r]) = i[r]
          /\ \A k \in 1..i[r] : testResults[r][k].relay = relays[k]
    /\ Cardinality({r \in Runs : pc[r] = "probing"}) <= 1

\* C18: whenever results is present, and so in the state reached by the step that
\* changes results from absent to present, isRunning is false.
C18_PublishedNotRunning == ~IsNull(results) => ~isRunning

C18_Witness ==
    /\ ~IsNull(results)
    /\ ~isRunning
    /\ Len(Published) = 2
    /\ \E r \in Runs : pc[r] = "done" /\ Len(progressLog[r]) = 8

\* C19: an accepted startTest first resets results, overlapResults and error to
\* null and progress to 0, and from there to the end of that run's probe phase
\* results, overlapResults and error stay null: nothing a previous run published
\* is visible while a run fetches followers or probes.
C19_ResetUntilComplete ==
    \A r \in Runs : Active(r) =>
        /\ IsNull(results)
        /\ IsNull(overlapResults)
        /\ IsNull(error)
        /\ progressLog[r][1] = Whole(0)

\* C20: a startTest rejected by the guard changes none of isRunning, results,
\* overlapResults, progress, currentPhase and error, starts nothing, and is not
\* taken up later: the rejected invocation stays returned.
C20_RejectedIsNoOp ==
    [][\A r \in Runs :
          /\ (pc[r] = "idle" /\ pc'[r] = "rejected") =>
                /\ UNCHANGED hookState
                /\ UNCHANGED <<followers, i, testResults, startTime, progressLog, queryLog>>
                /\ \A q \in Runs \ {r} : pc'[q] = pc[q]
          /\ pc[r] = "rejected" => pc'[r] = "rejected"
      ]_vars

C20_Witness ==
    \E r \in Runs : \E q \in Runs :
        /\ pc[r] = "rejected"
        /\ progressLog[r] = <<>>
        /\ pc[q] = "probing"
        /\ isRunning

\* the two summaries of lines 251 and 253
IsFailureSummary(e) ==
    e.text \in {"All relays failed analysis. Please check your internet connection and try again.",
                "out of relays failed analysis."}

\* C21: error is absent in every state in which isRunning is true: the failure
\* summaries and the fatal error are visible only with isRunning false, and a
\* failure summary only with results published.
C21_NoErrorWhileRunning ==
    /\ isRunning => IsNull(error)
    /\ (~IsNull(error) /\ IsFailureSummary(error[1])) => ~IsNull(results)

C21_Witness ==
    /\ ~isRunning
    /\ ~IsNull(results)
    /\ error = Some([text |-> "out of relays failed analysis.", failed |-> 1, total |-> 2])

\* the queries a run issues for the relay positions 0 .. n-1, one each, in order
ProbeQueries(n) == [k \in 1..n |-> RelayQuery(k - 1)]

\* the run's follower resolution has failed (the catch of lines 257-259 wrote 0)
ResolutionFailed(r) == pc[r] = "done" /\ progressLog[r] = <<Whole(0), Whole(10), Whole(0)>>

\* C22: an accepted run issues the follow-list query exactly once; when it
\* succeeds the run queries each position of the relay list exactly once, in
\* order, failed probes included, and when it fails the run issues no relay query.
C22_OneQueryEach ==
    \A r \in Runs :
        /\ pc[r] \in {"idle", "rejected"} => queryLog[r] = <<>>
        /\ pc[r] \in {"fetching", "resolved"} => queryLog[r] = <<FollowQuery>>
        /\ pc[r] = "probing" => queryLog[r] = <<FollowQuery>> \o ProbeQueries(i[r] + 1)
        /\ ResolutionFailed(r) => queryLog[r] = <<FollowQuery>>
        /\ (pc[r] = "done" /\ ~ResolutionFailed(r)) =>
              queryLog[r] = <<FollowQuery>> \o ProbeQueries(Len(relays))

C22_Witness ==
    /\ \E r \in Runs :
          /\ pc[r] = "done"
          /\ queryLog[r] = <<FollowQuery, RelayQuery(0), RelayQuery(1)>>
          /\ ~IsNull(results)
          /\ ~Published[1].success
    /\ \E q \in Runs : ResolutionFailed(q) /\ queryLog[q] = <<FollowQuery>>

\* C23: while a run probes relay i of N, progress is 30 + (i/N)*60, a value in
\* [30, 90) that is larger than the value of every earlier relay; the run writes
\* 95 for the overlap computation and 100 last when it ends after its probe phase.
C23_ProbeProgress ==
    \A r \in Runs :
        /\ pc[r] = "probing" =>
              /\ progress = ProbeProgress(i[r], Len(relays))
              /\ FracLeq(Whole(30), ProbeProgress(i[r], Len(relays)))
              /\ FracLess(ProbeProgress(i[r], Len(relays)), Whole(90))
              /\ \A k \in 0..(i[r] - 1) :
                    FracLess(ProbeProgress(k, Len(relays)), ProbeProgress(i[r], Len(relays)))
        /\ (pc[r] = "done" /\ ~ResolutionFailed(r)) =>
              /\ Len(progressLog[r]) >= 2
              /\ progressLog[r][Len(progressLog[r]) - 1] = Whole(95)
              /\ progressLog[r][Len(progressLog[r])] = Whole(100)

\* the values of the 'p' tags that have a non-empty value, in record order
RECURSIVE PTagValues(_)
PTagValues(tags) ==
    IF tags = <<>> THEN <<>>
    ELSE (IF Len(Head(tags)) >= 2 /\ Head(tags)[1] = "p" /\ Head(tags)[2] # ""
          THEN <<Head(tags)[2]>> ELSE <<>>) \o PTagValues(Tail(tags))

\* C24: getFollowers returns, in record order, the values of the record's 'p'
\* tags that have a non-empty value, cut to the first 50; it fails when the query
\* fails, when no record exists and when no value remains, so a follower list it
\* returns has between 1 and 50 entries.
C24_FollowersExtracted ==
    ~IsNull(fnRet) =>
        LET out == fnRet[1]
            values == IF fnArg.ok /\ Len(fnArg.events) > 0
                      THEN PTagValues(fnArg.events[1].tags) ELSE <<>>
        IN /\ out.ok <=> (fnArg.ok /\ Len(fnArg.events) > 0 /\ Len(values) > 0)
           /\ out.ok =>
                 /\ Len(out.followers) = Min(50, Len(values))
                 /\ \A k \in 1..Len(out.followers) : out.followers[k] = values[k]
                 /\ 1 <= Len(out.followers) /\ Len(out.followers) <= 50
           /\ (fnArg.ok /\ Len(fnArg.events) = 0) =>
                 out.err = ThrownError("No follow list found. Please follow some users first.")
           /\ (fnArg.ok /\ Len(fnArg.events) > 0 /\ Len(values) = 0) =>
                 out.err = ThrownError("Your follow list is empty. Please follow some users first.")

C24_Witness ==
    /\ ~IsNull(fnRet)
    /\ fnArg.ok
    /\ Len(fnArg.events) = 1
    /\ Len(fnArg.events[1].tags) = 53
    /\ fnArg.events[1].tags[1] = <<"p", "">>
    /\ fnRet[1].ok
    /\ Len(fnRet[1].followers) = 50
    /\ fnRet[1].followers[50] = "50"

\* a sequence without the later occurrences of its values, order kept
RECURSIVE FirstOccurrences(_)
FirstOccurrences(seq) ==
    IF seq = <<>> THEN <<>>
    ELSE LET front == FirstOccurrences(SubSeq(seq, 1, Len(seq) - 1))
             last == seq[Len(seq)]
         IN IF last \in Range(front) THEN front ELSE Append(front, last)

\* C25: a successful probe result lists in eventIds the identifiers of the events
\* the query delivered, in arrival order, no identifier more than once, and
\* eventCount is the length of eventIds.
C25_UniqueEventIds ==
    (~IsNull(fnRet) /\ fnRet[1].success) =>
        LET arrived == [k \in 1..Len(fnArg.resp.events) |-> fnArg.resp.events[k].id]
        IN /\ fnRet[1].eventIds = FirstOccurrences(arrived)
           /\ fnRet[1].eventCount = Len(fnRet[1].eventIds)

\* C26: for every pair of successful results, the analysis of the pair in the
\* other order gives the same common and the same overlapPercentage, with
\* relay1Only and relay2Only exchanged, also when an identifier repeats.
C26_OverlapSymmetric ==
    ~IsNull(fnRet) =>
        LET n == Len(SuccessEntries) IN
        \A a \in 1..n : \A b \in (a + 1)..n :
            LET o == fnRet[1][PairPosition(a, b, n)]
                swapped == calculateOverlap(<<SuccessEntries[b], SuccessEntries[a]>>)[1]
            IN /\ swapped.common = o.common
               /\ swapped.overlapPercentage = o.overlapPercentage
               /\ swapped.relay1Only = o.relay2Only
               /\ swapped.relay2Only = o.relay1Only

\* C27: in every state, results and overlapResults are present together, and
\* when they are, overlapResults is calculateOverlap of exactly that results
\* list: the two never come from different runs.
C27_OverlapOfPublished ==
    /\ IsNull(results) <=> IsNull(overlapResults)
    /\ ~IsNull(results) => overlapResults[1] = calculateOverlap(Published)

C27_Witness ==
    /\ ~IsNull(results)
    /\ Len(Published) = 2
    /\ Published[1].success /\ Published[2].success
    /\ Published[1].eventCount = 1 /\ Published[2].eventCount = 1
    /\ Len(overlapResults[1]) = 1
    /\ overlapResults[1][1].common = 1
    /\ \E r \in Runs : Active(r)

\* C28: every result of one run, failed or not, carries as followerCount the
\* length of the follower list that run resolved: those collected while the run
\* probes, and all of those it publishes when its last probe has answered.
C28_SameFollowerCount ==
    [][\A r \in Runs :
          /\ pc[r] = "probing" =>
                \A k \in 1..Len(testResults[r]) :
                    testResults[r][k].followerCount = Len(followers[r])
          /\ (pc[r] = "probing" /\ pc'[r] = "done") =>
                \A k \in 1..Len(results'[1]) :
                    results'[1][k].followerCount = Len(followers[r])
      ]_vars

C28_Witness ==
    /\ ~IsNull(results)
    /\ Len(Published) = 2
    /\ ~Published[1].success
    /\ Published[2].success
    /\ Published[1].followerCount = 2
    /\ Published[2].followerCount = 2

\* C29: parseRelayTags returns one entry per 'r' tag with a non-empty URL, in tag
\* order, with read = (the marker is not 'write') and write = (the marker is not
\* 'read'); an absent marker and any other marker give both flags true.
C29_RelayFlags ==
    ~IsNull(fnRet) =>
        LET kept == SelectSeq(fnArg, LAMBDA t : Len(t) >= 2 /\ t[1] = "r" /\ t[2] # "")
            out == fnRet[1]
        IN /\ Len(out) = Len(kept)
           /\ \A k \in 1..Len(kept) :
                 /\ out[k].url = kept[k][2]
                 /\ out[k].read = ~(Len(kept[k]) >= 3 /\ kept[k][3] = "write")
                 /\ out[k].write = ~(Len(kept[k]) >= 3 /\ kept[k][3] = "read")

C29_Witness ==
    /\ ~IsNull(fnRet)
    /\ fnArg = <<<<"r", "wss://a", "read">>, <<"r", "", "read">>, <<"r", "wss://b", "other">>>>
    /\ fnRet[1] = <<[url |-> "wss://a", read |-> TRUE, write |-> FALSE],
                    [url |-> "wss://b", read |-> TRUE, write |-> TRUE]>>

NoRepeat(list) == \A k \in 1..Len(list) : \A m \in 1..Len(list) : list[k] = list[m] => k = m

\* C30: after any sequence of page operations the test relay list holds no URL
\* twice: neither the state nor the list the rendered handlers pass to startTest.
C30_NoDuplicateRelay ==
    /\ NoRepeat(page.testRelays)
    /\ NoRepeat(page.rendered.testRelays)

C30_Witness ==
    /\ page.rendered.testRelays =
          <<"wss://relay.primal.net", "wss://relay.damus.io", "wss://a">>
    /\ page.testRelays = <<"wss://a", "wss://b">>
    /\ page.hasLoadedNip65

====
